---- MODULE Spec2Model ----
(***************************************************************************)
(* NutriScan AI: the application state machine (App), the capture/analysis *)
(* pipeline (handleCapture, analyzeFoodImage) and the History Store        *)
(* (saveToHistory, getHistory, clearHistory).                              *)
(*                                                                         *)
(* Values.  A string slot of the program that holds null is modelled by    *)
(* the string null; an object slot that holds null by the record           *)
(* NullValue.  A text (a response body, the content of the storage slot)   *)
(* is a tagged record: "absent" (no text), "empty", "malformed" (not JSON)  *)
(* or "json" with the value JSON.parse yields.                             *)
(***************************************************************************)
EXTENDS FiniteSets, Integers, Sequences, TLC

VARIABLES
  state,         \* App: useState<AppState>
  historyItems,  \* App: useState<HistoryItem[]>
  slot,          \* localStorage[STORAGE_KEY]: the persisted text
  now,           \* the reading Date.now() gives
  readers,       \* FileReaders started by handleFileUpload, not yet loaded: image -> count
  pending,       \* analyzeFoodImage calls awaited by handleCapture: image -> count
  started,       \* number of captures begun (shutter presses and file choices)
  last,          \* history variable: the operation of the last step and what it saw
  camera,        \* CameraCapture: its state, its streamRef and its effect runs
  audio          \* NutrientDisplay: its instances, speech requests and playback sources

vars == <<state, historyItems, slot, now, readers, pending, started, last, camera, audio>>

-----------------------------------------------------------------------------
(* Bounds of the model *)

MaxCaptures == 2
MaxSessions == 3
MaxViews == 2
MaxSpeech == 3
MaxClock == 1

(* Program constants *)

MAX_ITEMS == 20

STORAGE_KEY == "nutriscan_history_v1"

-----------------------------------------------------------------------------
(* Values *)

null == "null"
NullValue == [tag |-> "null"]

Images == {"IMG1", "IMG2"}

\* The message handleCapture falls back to (part_001:48), transliterated.
GenericMessage == "shi bie shi bai, qing chong shi."

\* FoodAnalysis (types: part_004:13-24), the fields the schema requires.
FoodAnalysisFields ==
  {"tag", "foodName", "calories", "servingSize", "giIndex", "giLevel",
   "purineContent", "purineLevel", "macros", "healthTips", "description"}

\* The analysis the remote model gives for an image: a value of the schema.
AnalysisOf(img) ==
  [tag |-> "obj", foodName |-> img, calories |-> 100, servingSize |-> "1 bowl",
   giIndex |-> 50, giLevel |-> "Low", purineContent |-> <<40, "mg/100g">>,
   purineLevel |-> "Low", macros |-> <<1, 2, 3>>, healthTips |-> <<"tip">>,
   description |-> "summary"]

\* Level (part_004:1-5)
Levels == {"Low", "Medium", "High"}

\* Index and purine readings around the thresholds of SYSTEM_INSTRUCTION.
GiSamples == {0, 54, 55, 56, 69, 70, 71}
PurineSamples == {49, 50, 150, 151}

\* A value of the schema with the given index, content and levels: the schema
\* constrains each level to the enum and nothing more. purineContent is the
\* text "<mg>mg/100g", kept as the pair of its number and its unit.
AnalysisWith(img, giIndex, giLevel, purineMg, purineLevel) ==
  [AnalysisOf(img) EXCEPT !.giIndex = giIndex, !.giLevel = giLevel,
                          !.purineContent = <<purineMg, "mg/100g">>,
                          !.purineLevel = purineLevel]

\* Valid JSON that is no FoodAnalysis: an object without the required fields.
PartialObject == [tag |-> "obj", foodName |-> "partial"]

IsFoodAnalysis(v) == v.tag = "obj" /\ DOMAIN v = FoodAnalysisFields

\* JavaScript truthiness of an object slot and of a string slot.
Truthy(v) == v # NullValue
TruthyStr(s) == s # null /\ s # ""

-----------------------------------------------------------------------------
(* JSON and the storage slot *)

AbsentText == [tag |-> "absent"]
EmptyText == [tag |-> "empty"]
MalformedText == [tag |-> "malformed"]

JSONstringify(v) == [tag |-> "json", value |-> v]

\* JSON.parse: the value, or a SyntaxError.
JSONparse(text) ==
  IF text.tag = "json"
    THEN [threw |-> FALSE, value |-> text.value]
    ELSE [threw |-> TRUE, value |-> NullValue]

\* What localStorage does to a call: "none" (works), "quota" (setItem throws
\* QuotaExceededError), "denied" (every access throws SecurityError),
\* "unreadable" (getItem throws, the other accesses work).
StorageFaults == {"none", "quota", "denied", "unreadable"}

\* The accesses that throw under a fault.
ReadFails(fault) == fault \in {"denied", "unreadable"}
WriteFails(fault) == fault \in {"quota", "denied"}

-----------------------------------------------------------------------------
(* History Store: services/storageService (geminiService.ts:107-149) *)

\* A read whose failure is not caught: the slot's entries come back all the same.
getHistoryReadingThrough(raw, fault) ==
  IF raw.tag \in {"absent", "empty"} THEN <<>>
  ELSE IF JSONparse(raw).threw THEN <<>>
  ELSE JSONparse(raw).value

\* getHistory(): the parsed slot, [] when it is absent, unreadable or unparsable.
getHistory(raw, fault) ==
  IF ReadFails(fault) THEN <<>>
  ELSE IF raw.tag \in {"absent", "empty"} THEN <<>>
  ELSE IF JSONparse(raw).threw THEN <<>>
  ELSE JSONparse(raw).value

\* The HistoryItem saveToHistory builds from two readings of Date.now().
NewItem(analysis, imageSrc, t1, t2) ==
  [id |-> ToString(t1), timestamp |-> t2, analysis |-> analysis, imageSrc |-> imageSrc]

\* A slice that keeps the newest entries but the one just added.
SliceDropNewest(s, n) == IF Len(s) <= n THEN s ELSE SubSeq(s, 2, n + 1)

\* Array.prototype.slice(0, n)
SliceFront(s, n) == SubSeq(s, 1, IF Len(s) < n THEN Len(s) ELSE n)

\* [newItem, ...existing] without a cap.
UpdatedUncapped(newItem, existing) == <<newItem>> \o existing

\* [newItem, ...existing].slice(0, MAX_ITEMS)
Updated(newItem, existing) == SliceFront(<<newItem>> \o existing, MAX_ITEMS)

\* A save that gives up when the slot cannot be parsed.
saveToHistoryUnlessCorrupt(raw, analysis, imageSrc, t1, t2, fault) ==
  LET newItem == NewItem(analysis, imageSrc, t1, t2)
      existing == getHistory(raw, fault)
      updated == Updated(newItem, existing)
  IN  IF WriteFails(fault) \/ raw.tag = "malformed" THEN raw ELSE JSONstringify(updated)

\* saveToHistory(analysis, imageSrc): the slot afterwards. A failure of the
\* write is caught and leaves the slot as it was.
saveToHistory(raw, analysis, imageSrc, t1, t2, fault) ==
  LET newItem == NewItem(analysis, imageSrc, t1, t2)
      existing == getHistory(raw, fault)
      updated == Updated(newItem, existing)
  IN  IF WriteFails(fault) THEN raw ELSE JSONstringify(updated)

\* A clear that removes the newest entry only.
clearHistoryDropNewest(raw, fault) ==
  IF fault = "denied" \/ getHistory(raw, "none") = <<>> THEN raw
  ELSE JSONstringify(Tail(getHistory(raw, "none")))

\* clearHistory(): removeItem, a failure caught.
clearHistory(raw, fault) == IF fault = "denied" THEN raw ELSE AbsentText

\* The readings a second Date.now() can give right after a first one.
NextReadings(t) == {t2 \in {t, t + 1} : t2 <= MaxClock}

-----------------------------------------------------------------------------
(* Analysis Client: analyzeFoodImage (part_003:264-337) *)

\* What the awaited generateContent call does: it rejects with an error
\* (with or without a message) or resolves to a response with a text.
RemoteOutcomes ==
  {[kind |-> "reject", error |-> [name |-> "Error", message |-> m]] :
      m \in {"fetch failed", ""}}
  \cup {[kind |-> "resolve", text |-> t] : t \in {AbsentText, EmptyText, MalformedText}}
  \cup {[kind |-> "resolve", text |-> JSONstringify(v)] :
      v \in {AnalysisOf(i) : i \in Images} \cup {PartialObject}}

\* The remote service answers an image with that image's analysis, when it
\* answers with a FoodAnalysis at all.
RemoteOutcomesFor(img) ==
  {r \in RemoteOutcomes :
     (r.kind = "resolve" /\ r.text.tag = "json" /\ IsFoodAnalysis(r.text.value))
        => r.text.value = AnalysisOf(img)}

Returned(v) == [returned |-> TRUE, raised |-> FALSE, value |-> v,
                error |-> [name |-> "none", message |-> ""]]
Raised(e) == [returned |-> FALSE, raised |-> TRUE, value |-> NullValue, error |-> e]

\* analyzeFoodImage(base64Image) given what the remote call does: the value it
\* returns or the error it throws. The image only travels to the remote
\* service (after its data-URI header is cut off), which is opaque here: what
\* the service answers is the parameter remote.
analyzeFoodImage(base64Image, remote) ==
  IF remote.kind = "reject" THEN Raised(remote.error)
  ELSE IF remote.text.tag \in {"absent", "empty"}
    THEN Raised([name |-> "Error", message |-> "No analysis generated."])
  ELSE IF JSONparse(remote.text).threw
    THEN Raised([name |-> "SyntaxError", message |-> "Unexpected token"])
  ELSE Returned(JSONparse(remote.text).value)

-----------------------------------------------------------------------------
(* App (part_001:10-208): the setState calls of its handlers *)

InitialState ==
  [status |-> "idle", imageSrc |-> null, analysis |-> NullValue, error |-> null,
   isHistoryView |-> FALSE]

\* A start that clears the error and leaves the status.
StartCameraStateStaying(prev) ==
  [prev EXCEPT !.error = null, !.isHistoryView = FALSE]

\* handleStartCamera
StartCameraState(prev) ==
  [prev EXCEPT !.status = "camera", !.error = null, !.isHistoryView = FALSE]

\* handleCapture, before the await
CapturedState(prev, base64Image) ==
  [prev EXCEPT !.status = "analyzing", !.imageSrc = base64Image]

\* handleCapture, after analyzeFoodImage returned
ResultState(prev, analysisData) ==
  [prev EXCEPT !.status = "result", !.analysis = analysisData, !.isHistoryView = FALSE]

\* error.message || fallback
ErrorMessage(error) == IF TruthyStr(error.message) THEN error.message ELSE GenericMessage

\* handleCapture, after analyzeFoodImage threw
ErrorState(prev, error) ==
  [prev EXCEPT !.status = "error", !.error = ErrorMessage(error)]

\* A reset that keeps the image of the cycle it leaves.
ResetStateKeepingImage ==
  [state EXCEPT !.status = "camera", !.analysis = NullValue, !.error = null,
                !.isHistoryView = FALSE]

\* handleReset
ResetState ==
  [status |-> "camera", imageSrc |-> null, analysis |-> NullValue, error |-> null,
   isHistoryView |-> FALSE]

\* A selection that does not mark the result as coming from the history.
SelectedStateUnmarked(prev, item) ==
  [prev EXCEPT !.status = "result", !.analysis = item.analysis,
               !.imageSrc = item.imageSrc]

\* handleSelectHistoryItem
SelectedState(prev, item) ==
  [prev EXCEPT !.status = "result", !.analysis = item.analysis,
               !.imageSrc = item.imageSrc, !.isHistoryView = TRUE]

\* the inline handlers setState(prev => ({...prev, status}))
StatusState(prev, status) == [prev EXCEPT !.status = status]

\* The render of NutrientDisplay throws a TypeError: it reads
\* data.macros.protein and calls data.healthTips.map.
NutrientDisplayThrows(data) ==
  ~({"macros", "healthTips"} \subseteq DOMAIN data)

\* renderContent, case 'result': the guard that returns NutrientDisplay.
ResultGuard(st) == Truthy(st.analysis) /\ TruthyStr(st.imageSrc)

\* renderContent, case 'result': NutrientDisplay is rendered.
ResultRendered(st) == ResultGuard(st) /\ ~NutrientDisplayThrows(st.analysis)

\* A render of the result screen has thrown. No error boundary catches it, so
\* React has unmounted the whole tree: the page is blank and stays so.
TreeUnmounted(st) ==
  st.status = "result" /\ ResultGuard(st) /\ NutrientDisplayThrows(st.analysis)

\* setState: an update of an unmounted tree changes nothing.
SetState(prev, next) == IF TreeUnmounted(prev) THEN prev ELSE next

\* A continuation that shows the analysis without saving it.
SettledStepsNotSaving(outcome) ==
  IF outcome.raised THEN <<"setError">> ELSE <<"setResult">>

\* A continuation whose catch block only logs the error.
SettledStepsLoggingFailure(outcome) ==
  IF outcome.raised THEN <<>> ELSE <<"save", "setResult">>

\* A continuation whose catch block saves as well.
SettledStepsSavingFailure(outcome) ==
  IF outcome.raised THEN <<"save", "setError">> ELSE <<"save", "setResult">>

\* What handleCapture does once its await has settled: the rest of the try
\* block (saveToHistory, then setState) or the catch block (setState).
SettledSteps(outcome) ==
  IF outcome.raised THEN <<"setError">> ELSE <<"save", "setResult">>

IsSetState(step) == step \in {"setResult", "setError"}

ApplyUpdate(prev, update, outcome) ==
  SetState(prev, IF update = "setResult" THEN ResultState(prev, outcome.value)
                 ELSE ErrorState(prev, outcome.error))

RECURSIVE ApplyUpdates(_, _, _)
ApplyUpdates(prev, updates, outcome) ==
  IF updates = <<>> THEN prev
  ELSE ApplyUpdates(ApplyUpdate(prev, Head(updates), outcome), Tail(updates), outcome)

-----------------------------------------------------------------------------
(* CameraCapture (part_001:216-440): the component, its streamRef and the    *)
(* runs of its effect.  A run ("session") is one call of startCamera with    *)
(* its own mounted flag; the stream a session acquires is named by the       *)
(* session's index.                                                          *)

\* The errors getUserMedia rejects with.
CameraErrors ==
  {[name |-> n, message |-> ""] :
     n \in {"NotAllowedError", "NotFoundError", "OverconstrainedError"}}

UnsupportedError == [name |-> "Error", message |-> "Browser API not supported"]

\* The message startCamera's catch block picks.
CameraMessage(err) ==
  IF err.name \in {"NotAllowedError", "PermissionDeniedError"} THEN "permission denied"
  ELSE IF err.name \in {"NotFoundError", "DevicesNotFoundError"} THEN "no camera found"
  ELSE IF err.message = "Browser API not supported" THEN "browser not supported"
  ELSE "cannot start camera"

\* The component before it is rendered; supported: the page has getUserMedia.
\* video: the stream the video element holds as srcObject (none, or the one
\* it was given last; the element keeps its frame and its size when the
\* tracks of that stream are stopped).
CameraOff(supported) ==
  [supported |-> supported, mounted |-> FALSE, facingMode |-> "environment",
   error |-> "", streamRef |-> {}, sessions |-> <<>>, running |-> {}, video |-> {}]

\* CameraCapture.handleCapture gets past its guards: the video element is
\* rendered (no error view) and has a frame (videoWidth and videoHeight not 0).
FrameAvailable(cam) == cam.mounted /\ cam.error = "" /\ cam.video # {}

\* The file input is rendered by the error view and by the camera view alike.
UploadAvailable(cam) == cam.mounted

Pending(session) == session.phase \in {"preferred", "fallback"}

\* A cleanup that forgets the stream without stopping its tracks.
CleanedUpKeepingStream(cam) ==
  LET cur == Len(cam.sessions)
  IN  [cam EXCEPT !.sessions[cur].mounted = FALSE, !.streamRef = {}]

\* The effect's cleanup: mounted = false, the stream of streamRef stopped.
CleanedUp(cam) ==
  LET cur == Len(cam.sessions)
  IN  [cam EXCEPT !.sessions[cur].mounted = FALSE,
                  !.sessions[cur].phase = IF @ = "active" THEN "stopped" ELSE @,
                  !.running = @ \ cam.streamRef,
                  !.streamRef = {}]

\* The effect: mounted = true and startCamera up to its first await (or, with
\* no getUserMedia, through its catch block).
EffectStarted(cam) ==
  LET fresh == [cam EXCEPT !.running = @ \ cam.streamRef, !.streamRef = {}, !.error = ""]
      session == [facingMode |-> cam.facingMode, mounted |-> TRUE, phase |-> "preferred",
                  attempts |-> 1, prefFailed |-> FALSE, surfaced |-> FALSE]
  IN  IF cam.supported
        THEN [fresh EXCEPT !.sessions = Append(@, session)]
        ELSE [fresh EXCEPT
                !.sessions = Append(@, [session EXCEPT !.phase = "failed", !.attempts = 0,
                                                       !.surfaced = TRUE]),
                !.error = CameraMessage(UnsupportedError), !.video = {}]

\* A continuation that keeps the stream whatever the mounted flag says.
AcquiredUnchecked(cam, i) ==
  [cam EXCEPT !.sessions[i].phase = "active", !.streamRef = {i}, !.running = @ \cup {i},
              !.video = IF cam.mounted /\ cam.error = "" THEN {i} ELSE @]

\* startCamera after a getUserMedia of session i resolved: the stream is
\* stopped at once when the session was cleaned up, kept in streamRef otherwise.
Acquired(cam, i) ==
  IF ~cam.sessions[i].mounted
    THEN [cam EXCEPT !.sessions[i].phase = "released"]
    ELSE [cam EXCEPT !.sessions[i].phase = "active", !.streamRef = {i},
                     !.running = @ \cup {i},
                     !.video = IF cam.error = "" THEN {i} ELSE @]

\* A rejection that goes to the catch block without the second request.
RejectedWithoutFallback(cam, i, err) ==
  LET s == cam.sessions[i]
  IN  [cam EXCEPT !.sessions[i].phase = "failed",
                  !.sessions[i].prefFailed = (s.phase = "preferred"),
                  !.sessions[i].surfaced = s.mounted,
                  !.error = IF s.mounted THEN CameraMessage(err) ELSE @,
                  !.video = IF s.mounted THEN {} ELSE @]

\* A rejection handled by asking once more after the unconstrained request
\* failed.
RejectedAskingAgain(cam, i, err) ==
  LET s == cam.sessions[i]
  IN  IF s.phase = "preferred" \/ s.attempts < 3
        THEN [cam EXCEPT !.sessions[i].phase = "fallback",
                         !.sessions[i].attempts = @ + 1,
                         !.sessions[i].prefFailed = TRUE]
        ELSE [cam EXCEPT !.sessions[i].phase = "failed",
                         !.sessions[i].surfaced = s.mounted,
                         !.error = IF s.mounted THEN CameraMessage(err) ELSE @,
                         !.video = IF s.mounted THEN {} ELSE @]

\* startCamera after a getUserMedia of session i rejected: the unconstrained
\* request after the preferred one, the catch block after the unconstrained one.
Rejected(cam, i, err) ==
  LET s == cam.sessions[i]
  IN  IF s.phase = "preferred"
        THEN [cam EXCEPT !.sessions[i].phase = "fallback",
                         !.sessions[i].attempts = @ + 1,
                         !.sessions[i].prefFailed = TRUE]
        ELSE [cam EXCEPT !.sessions[i].phase = "failed",
                         !.sessions[i].surfaced = s.mounted,
                         !.error = IF s.mounted THEN CameraMessage(err) ELSE @,
                         !.video = IF s.mounted THEN {} ELSE @]

\* CameraCapture is taken down: the cleanup of its effect, its video element
\* gone.
TakenDown(cam) == [CleanedUp(cam) EXCEPT !.mounted = FALSE, !.video = {}]

-----------------------------------------------------------------------------
(* NutrientDisplay's speech playback (part_002:68-155).  A view is one       *)
(* rendering of the component, with its own state and refs; a speech request *)
(* belongs to the view whose play button started it, and the playback source *)
(* made from its answer is named by the request's index.                     *)

\* No result view rendered yet.
\* active: the sources that sound; stopped: the sources that were stopped
\* while they sounded and whose ended event has not been delivered yet.
AudioOff == [views |-> <<>>, requests |-> <<>>, active |-> {}, stopped |-> {}]

\* useState / useRef initial values of one rendering.
NewView ==
  [mounted |-> TRUE, isAudioLoading |-> FALSE, isPlaying |-> FALSE,
   audioContext |-> "none", sourceNode |-> {}]

NewRequest(v) ==
  [view |-> v, phase |-> "pending", alerted |-> FALSE, started |-> FALSE, error |-> ""]

\* What handlePlayAudio throws when the answer holds no audio data, and what
\* generateFoodSpeech rethrows.
NoAudioError == [name |-> "Error", message |-> "No audio generated"]

\* What the decoding of the answer throws: atob on text that is no base64,
\* Int16Array on an odd number of bytes, createBuffer on no frames (data of
\* white space only).
DecodeErrors ==
  {[name |-> "InvalidCharacterError", message |-> "not correctly encoded"],
   [name |-> "RangeError", message |-> "byte length should be a multiple of 2"],
   [name |-> "NotSupportedError",
    message |-> "The number of frames provided (0) is less than or equal to the minimum bound (0)"]}

SpeechErrors == {[name |-> "Error", message |-> "fetch failed"]}

\* The rendering the application shows, 0 when it shows none.
CurrentView(aud) ==
  IF Len(aud.views) > 0 /\ aud.views[Len(aud.views)].mounted THEN Len(aud.views) ELSE 0

\* The sources of a view: all are made on the one context of the view.
SourcesOf(aud, v) ==
  {r \in 1..Len(aud.requests) : aud.requests[r].view = v /\ aud.requests[r].started}

\* The cleanup of the unmount effect: the source of sourceNodeRef stopped, the
\* context of audioContextRef closed.  A closed context renders nothing: every
\* source of the view is silent from then on, also one that sourceNodeRef had
\* lost and that nothing stopped.
Unmounted(aud, v) ==
  [aud EXCEPT !.views[v].mounted = FALSE,
              !.views[v].audioContext = IF @ = "none" THEN "none" ELSE "closed",
              !.active = @ \ SourcesOf(aud, v),
              !.stopped = @ \cup (aud.views[v].sourceNode \cap aud.active)]

\* handlePlayAudio while playing: the source is stopped and forgotten.
PlaybackStopped(aud, v) ==
  [aud EXCEPT !.views[v].sourceNode = {}, !.views[v].isPlaying = FALSE,
              !.active = @ \ aud.views[v].sourceNode,
              !.stopped = @ \cup (aud.views[v].sourceNode \cap aud.active)]

\* A request that leaves the play button enabled.
SpeechRequestedWithoutSpinner(aud, v) ==
  [aud EXCEPT !.requests = Append(@, NewRequest(v))]

\* handlePlayAudio while not playing, up to its await.
SpeechRequested(aud, v) ==
  [aud EXCEPT !.views[v].isAudioLoading = TRUE,
              !.requests = Append(@, NewRequest(v))]

\* A failure that tells the user nothing.
SpeechFailedSilently(aud, r, err) ==
  [aud EXCEPT !.requests[r].phase = "failed", !.requests[r].error = err.message,
              !.views[aud.requests[r].view].isAudioLoading = FALSE]

\* handlePlayAudio's catch and finally blocks: the error logged, the alert,
\* the spinner off.
SpeechFailed(aud, r, err) ==
  [aud EXCEPT !.requests[r].phase = "failed", !.requests[r].alerted = TRUE,
              !.requests[r].error = err.message,
              !.views[aud.requests[r].view].isAudioLoading = FALSE]

\* What generateFoodSpeech can resolve to: no data, 16-bit PCM in base64, or
\* data on which the decoding throws the named error.
SpeechAnswers ==
  {[data |-> d, error |-> [name |-> "none", message |-> ""]] : d \in {"none", "pcm"}}
    \cup {[data |-> "undecodable", error |-> e] : e \in DecodeErrors}

\* handlePlayAudio after generateFoodSpeech returned data that cannot be
\* decoded: the context is made when the view has none, the decoding throws,
\* and the catch and finally blocks run; no source is made.
SpeechUndecodable(aud, r, err) ==
  LET v == aud.requests[r].view
  IN  SpeechFailed([aud EXCEPT !.views[v].audioContext = IF @ = "none" THEN "open" ELSE @],
                   r, err)

\* handlePlayAudio after generateFoodSpeech returned audio data: the context
\* is made when the view has none, the source is made, started and kept.  A
\* source started on a closed context gives no sound.
SpeechPlayed(aud, r) ==
  LET v == aud.requests[r].view
      ctx == IF aud.views[v].audioContext = "none" THEN "open" ELSE aud.views[v].audioContext
  IN  [aud EXCEPT !.requests[r].phase = "played", !.requests[r].started = TRUE,
                  !.views[v].audioContext = ctx,
                  !.views[v].sourceNode = {r},
                  !.views[v].isPlaying = TRUE,
                  !.views[v].isAudioLoading = FALSE,
                  !.active = IF ctx = "open" THEN @ \cup {r} ELSE @]

\* source.onended, of a source that reached its end or of one that was
\* stopped before: setIsPlaying(false), whatever the view plays by then.
PlaybackEnded(aud, r) ==
  [aud EXCEPT !.active = @ \ {r}, !.stopped = @ \ {r},
              !.views[aud.requests[r].view].isPlaying = FALSE]

-----------------------------------------------------------------------------
(* The history variable *)

NoOutcome == [returned |-> FALSE, raised |-> FALSE, value |-> NullValue,
              error |-> [name |-> "none", message |-> ""]]

NoRemote == [kind |-> "none"]

NoItem == [id |-> "", timestamp |-> 0, analysis |-> NullValue, imageSrc |-> null]

\* op: the operation; image, remote, outcome: the capture's image, what the
\* remote call did and what analyzeFoodImage made of it; fault: what the storage
\* did; prevStatus, prevSlot: status and slot before the step; updates: the
\* number of setState calls; item: the HistoryItem built or chosen.
Did(op, image, remote, outcome, fault, updates, item) ==
  [op |-> op, image |-> image, remote |-> remote, outcome |-> outcome, fault |-> fault,
   prevStatus |-> state.status, prevSlot |-> slot, updates |-> updates, item |-> item]

DidUser(op) == Did(op, null, NoRemote, NoOutcome, "none", 1, NoItem)

Add(bag, x) == [bag EXCEPT ![x] = @ + 1]
Remove(bag, x) == [bag EXCEPT ![x] = @ - 1]
EmptyBag == [i \in Images |-> 0]

-----------------------------------------------------------------------------
(* Initial state: a fresh session over an empty store *)

Init ==
  /\ state = InitialState
  /\ historyItems = <<>>
  /\ slot = AbsentText
  /\ now = 0
  /\ readers = EmptyBag
  /\ pending = EmptyBag
  /\ started = 0
  /\ last = [op |-> "init", image |-> null, remote |-> NoRemote, outcome |-> NoOutcome,
             fault |-> "none", prevStatus |-> "idle", prevSlot |-> AbsentText,
             updates |-> 0, item |-> NoItem]
  /\ camera = CameraOff(TRUE)
  /\ audio = AudioOff

-----------------------------------------------------------------------------
(* Actions of the application *)

\* The clock advances.
Tick ==
  /\ now < MaxClock
  /\ now' = now + 1
  /\ UNCHANGED <<state, historyItems, slot, readers, pending, started, last, camera, audio>>

\* idle: the start button (handleStartCamera)
StartCamera ==
  /\ state.status = "idle"
  /\ state' = StartCameraState(state)
  /\ last' = DidUser("start")
  /\ UNCHANGED <<historyItems, slot, now, readers, pending, started, camera, audio>>

\* camera: the back button
CameraBack ==
  /\ state.status = "camera"
  /\ state' = StatusState(state, "idle")
  /\ last' = DidUser("cameraBack")
  /\ UNCHANGED <<historyItems, slot, now, readers, pending, started, camera, audio>>

\* A shutter that emits whatever the canvas holds when the video has no frame.
ShutterWithoutFrameCheck ==
  /\ state.status = "camera"
  /\ started < MaxCaptures
  /\ \E ready \in BOOLEAN, frame \in Images :
       /\ state' = CapturedState(state, frame)
       /\ pending' = Add(pending, frame)
       /\ started' = started + 1
       /\ last' = Did(IF ready THEN "capture" ELSE "shutterNoFrame", frame,
                       NoRemote, NoOutcome, "none", 1, NoItem)
  /\ UNCHANGED <<historyItems, slot, now, readers, camera, audio>>

\* camera: the shutter (CameraCapture.handleCapture). Without a video frame
\* it returns; with one it calls onCapture, that is App.handleCapture up to
\* its await.
Shutter ==
  /\ state.status = "camera"
  /\ started < MaxCaptures
  /\ \E ready \in BOOLEAN :
       IF ready
         THEN \E frame \in Images :
                /\ state' = CapturedState(state, frame)
                /\ pending' = Add(pending, frame)
                /\ started' = started + 1
                /\ last' = Did("capture", frame, NoRemote, NoOutcome, "none", 1, NoItem)
         ELSE /\ last' = Did("shutterNoFrame", null, NoRemote, NoOutcome, "none", 0, NoItem)
              /\ UNCHANGED <<state, pending, started>>
  /\ UNCHANGED <<historyItems, slot, now, readers, camera, audio>>

\* camera: a file is chosen (handleFileUpload): a FileReader starts reading.
FileUpload ==
  /\ state.status = "camera"
  /\ started < MaxCaptures
  /\ \E file \in Images :
       /\ readers' = Add(readers, file)
       /\ last' = Did("fileChosen", file, NoRemote, NoOutcome, "none", 0, NoItem)
  /\ started' = started + 1
  /\ UNCHANGED <<state, historyItems, slot, now, pending, camera, audio>>

\* A FileReader finishes (reader.onload): onCapture(result), whatever the
\* application shows by then.
ReaderLoads ==
  \E file \in Images :
    /\ readers[file] > 0
    /\ readers' = Remove(readers, file)
    /\ state' = SetState(state, CapturedState(state, file))
    /\ pending' = Add(pending, file)
    /\ last' = Did("capture", file, NoRemote, NoOutcome, "none", 1, NoItem)
    /\ UNCHANGED <<historyItems, slot, now, started, camera, audio>>

\* An awaited analyzeFoodImage call settles and handleCapture runs on.
AnalysisSettles ==
  \E img \in Images, remote \in RemoteOutcomes, fault \in StorageFaults,
     t2 \in NextReadings(now) :
    LET outcome == analyzeFoodImage(img, remote)
        steps == SettledSteps(outcome)
        saves == \E k \in 1..Len(steps) : steps[k] = "save"
        updates == SelectSeq(steps, IsSetState)
    IN  /\ pending[img] > 0
        /\ remote \in RemoteOutcomesFor(img)
        /\ saves \/ (fault = "none" /\ t2 = now)
        /\ pending' = Remove(pending, img)
        /\ slot' = IF saves THEN saveToHistory(slot, outcome.value, img, now, t2, fault)
                            ELSE slot
        /\ now' = IF saves THEN t2 ELSE now
        /\ state' = ApplyUpdates(state, updates, outcome)
        /\ last' = Did("settle", img, remote, outcome, fault, Len(updates),
                        IF saves THEN NewItem(outcome.value, img, now, t2) ELSE NoItem)
        /\ UNCHANGED <<historyItems, readers, started, camera, audio>>

\* A reset that the error view does not offer.
ResetFromResultOnly ==
  /\ state.status = "result" /\ ResultRendered(state) /\ ~state.isHistoryView
  /\ state' = ResetState
  /\ last' = DidUser("reset")
  /\ UNCHANGED <<historyItems, slot, now, readers, pending, started, camera, audio>>

\* result (not from history) and error: handleReset
Reset ==
  /\ \/ state.status = "result" /\ ResultRendered(state) /\ ~state.isHistoryView
     \/ state.status = "error"
  /\ state' = ResetState
  /\ last' = DidUser("reset")
  /\ UNCHANGED <<historyItems, slot, now, readers, pending, started, camera, audio>>

\* result (from history): onBack
ResultBack ==
  /\ state.status = "result" /\ ResultRendered(state) /\ state.isHistoryView
  /\ state' = StatusState(state, "history")
  /\ last' = DidUser("resultBack")
  /\ UNCHANGED <<historyItems, slot, now, readers, pending, started, camera, audio>>

\* error: the home button
ErrorHome ==
  /\ state.status = "error"
  /\ state' = StatusState(state, "idle")
  /\ last' = DidUser("errorHome")
  /\ UNCHANGED <<historyItems, slot, now, readers, pending, started, camera, audio>>

\* idle: the history button (handleViewHistory)
ViewHistory ==
  /\ state.status = "idle"
  /\ \E fault \in {"none", "denied"} :
       /\ historyItems' = getHistory(slot, fault)
       /\ last' = Did("viewHistory", null, NoRemote, NoOutcome, fault, 1, NoItem)
  /\ state' = StatusState(state, "history")
  /\ UNCHANGED <<slot, now, readers, pending, started, camera, audio>>

\* history: an item is chosen (handleSelectHistoryItem)
SelectHistoryItem ==
  /\ state.status = "history"
  /\ \E i \in 1..Len(historyItems) :
       /\ state' = SelectedState(state, historyItems[i])
       /\ last' = Did("select", null, NoRemote, NoOutcome, "none", 1, historyItems[i])
  /\ UNCHANGED <<historyItems, slot, now, readers, pending, started, camera, audio>>

\* history: the back button
HistoryBack ==
  /\ state.status = "history"
  /\ state' = StatusState(state, "idle")
  /\ last' = DidUser("historyBack")
  /\ UNCHANGED <<historyItems, slot, now, readers, pending, started, camera, audio>>

\* A clear button that clears whatever the dialog's answer.
ClearHistoryUnasked ==
  /\ state.status = "history"
  /\ Len(historyItems) # 0
  /\ \E confirmed \in BOOLEAN, fault \in {"none", "denied"} :
       /\ ~confirmed => fault = "none"
       /\ slot' = clearHistory(slot, fault)
       /\ historyItems' = <<>>
       /\ last' = Did(IF confirmed THEN "clear" ELSE "clearDeclined", null,
                       NoRemote, NoOutcome, fault, 1, NoItem)
  /\ UNCHANGED <<state, now, readers, pending, started, camera, audio>>

\* history: the clear button (enabled when items are shown): on confirm,
\* handleClearHistory.
ClearHistory ==
  /\ state.status = "history"
  /\ Len(historyItems) # 0
  /\ \E confirmed \in BOOLEAN, fault \in {"none", "denied"} :
       IF confirmed
         THEN /\ slot' = clearHistory(slot, fault)
              /\ historyItems' = <<>>
              /\ last' = Did("clear", null, NoRemote, NoOutcome, fault, 1, NoItem)
         ELSE /\ fault = "none"
              /\ last' = Did("clearDeclined", null, NoRemote, NoOutcome, fault, 0, NoItem)
              /\ UNCHANGED <<slot, historyItems>>
  /\ UNCHANGED <<state, now, readers, pending, started, camera, audio>>

Next ==
  \/ Tick
  \/ StartCamera
  \/ CameraBack
  \/ Shutter
  \/ FileUpload
  \/ ReaderLoads
  \/ AnalysisSettles
  \/ Reset
  \/ ResultBack
  \/ ErrorHome
  \/ ViewHistory
  \/ SelectHistoryItem
  \/ HistoryBack
  \/ ClearHistory

Spec == Init /\ [][Next]_vars

\* The steps of the capture flow (home, camera, analyzing, result, error)
\* within one reading of the clock.
NextLive ==
  \/ StartCamera
  \/ CameraBack
  \/ Shutter
  \/ FileUpload
  \/ ReaderLoads
  \/ AnalysisSettles
  \/ Reset
  \/ ErrorHome

\* Every awaited analyzeFoodImage call settles in the end (the remote service
\* answers or the request fails).
SpecLive == Init /\ [][NextLive]_vars /\ WF_vars(AnalysisSettles)

\* The steps a user action takes (a click on a control the screen shows).
UserStep ==
  \/ StartCamera
  \/ CameraBack
  \/ Shutter
  \/ FileUpload
  \/ Reset
  \/ ResultBack
  \/ ErrorHome
  \/ ViewHistory
  \/ SelectHistoryItem
  \/ HistoryBack
  \/ ClearHistory

\* Some single step, of the user or of a request settling, leads from the
\* current state to the given status.
StepLeads(status) == ENABLED (Next /\ state'.status = status)

\* Some single user action leads from the current state to the given status.
CanLead(status) == ENABLED (UserStep /\ state'.status = status)

-----------------------------------------------------------------------------
(* The History Store driven through its interface: any sequence of           *)
(* saveToHistory and clearHistory calls from an empty store.  The entries    *)
(* are told apart by the clock readings in id and timestamp.                 *)

StoreImage == "IMG1"

StoreSave ==
  \E fault \in StorageFaults, t2 \in NextReadings(now) :
    /\ slot' = saveToHistory(slot, AnalysisOf(StoreImage), StoreImage, now, t2, fault)
    /\ now' = t2
    /\ last' = Did("save", StoreImage, NoRemote, NoOutcome, fault, 0,
                    NewItem(AnalysisOf(StoreImage), StoreImage, now, t2))
    /\ UNCHANGED <<state, historyItems, readers, pending, started, camera, audio>>

StoreClear ==
  \E fault \in {"none", "denied"} :
    /\ slot' = clearHistory(slot, fault)
    /\ last' = Did("clear", null, NoRemote, NoOutcome, fault, 0, NoItem)
    /\ UNCHANGED <<state, historyItems, now, readers, pending, started, camera, audio>>

NextStore == Tick \/ StoreSave \/ StoreClear

SpecStore == Init /\ [][NextStore]_vars

-----------------------------------------------------------------------------
(* The application started on a slot whose text is not JSON (written by      *)
(* something else under the same key, or damaged).                           *)

InitCorrupt ==
  /\ state = InitialState
  /\ historyItems = <<>>
  /\ slot = MalformedText
  /\ now = 0
  /\ readers = EmptyBag
  /\ pending = EmptyBag
  /\ started = 0
  /\ last = [op |-> "init", image |-> null, remote |-> NoRemote, outcome |-> NoOutcome,
             fault |-> "none", prevStatus |-> "idle", prevSlot |-> MalformedText,
             updates |-> 0, item |-> NoItem]
  /\ camera = CameraOff(TRUE)
  /\ audio = AudioOff

SpecCorrupt == InitCorrupt /\ [][Next]_vars

-----------------------------------------------------------------------------
(* Properties *)

\* list(): what getHistory() returns from the persisted slot.
List == getHistory(slot, "none")
PrevList == getHistory(last.prevSlot, "none")

Settled == last.op = "settle"
Saved == last.op = "save" /\ last.fault = "none"

\* C1: after any sequence of saveToHistory and clearHistory calls from an
\* empty store, getHistory() returns at most MAX_ITEMS (20) entries.
C1_HistoryCapacity == Len(List) <= MAX_ITEMS

\* C1 witness: a save that succeeded on a store already holding 20 entries.
C1_Witness == Saved /\ Len(PrevList) = MAX_ITEMS /\ Len(List) = MAX_ITEMS

\* C2 (as claimed): the list getHistory() returns is strictly descending in
\* timestamp, also when two saves happen at the same clock reading.
C2_StrictlyDescending ==
  \A k \in 1..(Len(List) - 1) : List[k].timestamp > List[k + 1].timestamp

\* C3: a successful saveToHistory on a store of exactly 20 entries leaves 20
\* entries: the new entry first, then the 19 newest of the previous entries in
\* their previous order; the previously oldest entry is gone.
C3_Eviction ==
  (Saved /\ Len(PrevList) = MAX_ITEMS) =>
     /\ Len(List) = MAX_ITEMS
     /\ List[1] = last.item
     /\ \A k \in 2..MAX_ITEMS : List[k] = PrevList[k - 1]

\* C3 witness: such a save where the previously oldest entry differs from
\* the new entry and from the entry before it, and is no longer the last one.
C3_Witness ==
  /\ Saved /\ Len(PrevList) = MAX_ITEMS
  /\ last.item # PrevList[MAX_ITEMS]
  /\ PrevList[MAX_ITEMS] # PrevList[MAX_ITEMS - 1]
  /\ PrevList[MAX_ITEMS] # List[MAX_ITEMS]

\* The newest entry of the store holds analysis a together with image img.
NewestHolds(a, img) ==
  Len(List) > 0 /\ List[1].analysis = a /\ List[1].imageSrc = img

\* C4 (as claimed): when the analysis request for image IMG returns analysis
\* A, the state becomes result with analysis A and isHistoryView false, and
\* the newest entry of the History Store holds A together with IMG.
C4_SuccessAlwaysSaved ==
  (Settled /\ last.outcome.returned) =>
     /\ state.status = "result"
     /\ state.analysis = last.outcome.value
     /\ state.isHistoryView = FALSE
     /\ NewestHolds(last.outcome.value, last.image)

\* C5 (as claimed): when the analysis request fails, the state becomes error with a
\* non-empty message, the generic message when the error carries none, and
\* the History Store is as it was before.
C5_FailedAnalysis ==
  (Settled /\ last.outcome.raised) =>
     /\ state.status = "error"
     /\ state.error # null /\ state.error # ""
     /\ (last.outcome.error.message = "" => state.error = GenericMessage)
     /\ (last.outcome.error.message # "" => state.error = last.outcome.error.message)
     /\ slot = last.prevSlot

\* C6 (as claimed): in every reachable state with status result, imageSrc and
\* analysis are both present.
C6_ResultHasImageAndAnalysis ==
  state.status = "result" => (state.imageSrc # null /\ state.analysis # NullValue)

\* The number of analysis requests outstanding.
Outstanding == pending["IMG1"] + pending["IMG2"]

\* C7 (as claimed): at most one analysis request is outstanding at any time.
C7_SingleInFlight == Outstanding <= 1

\* C8 (as claimed): a response that arrives after the user has moved on (the status is no
\* longer analyzing) still overwrites the state: the status becomes result,
\* with the returned analysis, on success, and error on failure.
C8_LateResponseOverwrites ==
  (Settled /\ last.prevStatus # "analyzing") =>
     /\ last.outcome.returned =>
          (state.status = "result" /\ state.analysis = last.outcome.value)
     /\ last.outcome.raised =>
          (state.status = "error" /\ state.error = ErrorMessage(last.outcome.error))

\* C9 (as claimed): a schema-invalid response makes analyzeFoodImage fail, so
\* no value that is not a FoodAnalysis is returned, shown as result or stored.
C9_NoSchemaInvalidValue ==
  /\ (Settled /\ last.outcome.returned) => IsFoodAnalysis(last.outcome.value)
  /\ (state.status = "result" /\ state.analysis # NullValue)
        => IsFoodAnalysis(state.analysis)
  /\ \A k \in 1..Len(List) : IsFoodAnalysis(List[k].analysis)

\* C10 (as claimed): every analysis request ends in exactly one of a returned value and a
\* raised error, and makes exactly one update of the state: to result when it
\* returned, to error when it raised.
C10_ExactlyOneOutcome ==
  Settled =>
     /\ last.outcome.returned # last.outcome.raised
     /\ last.updates = 1
     /\ state.status = (IF last.outcome.returned THEN "result" ELSE "error")

-----------------------------------------------------------------------------
(* analyzeFoodImage applied to every answer of the remote service, among     *)
(* them every combination of index, content and levels the schema admits.    *)

SchemaOutcomes ==
  {[kind |-> "resolve", text |-> JSONstringify(AnalysisWith(i, g, gl, p, pl))] :
     i \in Images, g \in GiSamples, gl \in Levels, p \in PurineSamples, pl \in Levels}

\* analyzeFoodImage(img) is called: the request is sent and the function
\* waits at its await of generateContent.
AnalyzeCalled ==
  \E img \in Images :
    /\ pending["IMG1"] + pending["IMG2"] < MaxCaptures
    /\ pending' = Add(pending, img)
    /\ UNCHANGED <<state, historyItems, slot, now, readers, started, last, camera, audio>>

\* The awaited generateContent call settles and analyzeFoodImage returns or
\* throws.
Analyze ==
  \E img \in Images, remote \in RemoteOutcomes \cup SchemaOutcomes :
    /\ pending[img] > 0
    /\ pending' = Remove(pending, img)
    /\ last' = Did("analyze", img, NoRemote, analyzeFoodImage(img, remote), "none", 0, NoItem)
    /\ UNCHANGED <<state, historyItems, slot, now, readers, started, camera, audio>>

NextAnalyze ==
  \/ AnalyzeCalled
  \/ Analyze

SpecAnalyze == Init /\ [][NextAnalyze]_vars

\* The thresholds of section 3: GI LOW < 55, MEDIUM 56-69, HIGH > 70; purine
\* LOW < 50, MEDIUM 50-150, HIGH > 150 (mg per 100 g).
GiConsistent(a) ==
  /\ a.giLevel = "Low" => a.giIndex < 55
  /\ a.giLevel = "Medium" => (a.giIndex >= 56 /\ a.giIndex <= 69)
  /\ a.giLevel = "High" => a.giIndex > 70

PurineConsistent(a) ==
  /\ a.purineLevel = "Low" => a.purineContent[1] < 50
  /\ a.purineLevel = "Medium" => (a.purineContent[1] >= 50 /\ a.purineContent[1] <= 150)
  /\ a.purineLevel = "High" => a.purineContent[1] > 150

\* C12: selecting item H in the history status gives status result with H's
\* analysis and image, marked as a history view, and leaves the store as it
\* was; the back action from that result gives status history (not idle).
C12_HistorySelection ==
  /\ last.op = "select" =>
        /\ last.prevStatus = "history"
        /\ state.status = "result"
        /\ state.analysis = last.item.analysis
        /\ state.imageSrc = last.item.imageSrc
        /\ state.isHistoryView
        /\ slot = last.prevSlot
  /\ last.op = "resultBack" => (last.prevStatus = "result" /\ state.status = "history")

\* C12 witness: back pressed on a result that was opened from a non-empty
\* history list, which is shown again.
C12_Witness ==
  last.op = "resultBack" /\ state.status = "history" /\ state.isHistoryView
    /\ Len(historyItems) > 0 /\ state.analysis = historyItems[1].analysis

\* C13: the persisted store changes only in a step that handles a successful
\* analysis (its save) or in a clear; every other step (start, back, home,
\* reset, viewHistory, select, a failed analysis, shutter, file chosen or
\* read) leaves it as it was.
C13_StoreFrame ==
  slot # last.prevSlot => ((Settled /\ last.outcome.returned) \/ last.op = "clear")

\* C13 witness: a failed analysis handled while the store holds an entry,
\* which is still there.
C13_Witness ==
  Settled /\ last.outcome.raised /\ Len(List) > 0 /\ slot = last.prevSlot

\* C14 (as claimed): an entry the store holds stays in it, unchanged, through
\* every save that does not push it beyond the cap of 20, also a save made
\* when the store cannot be read; only a clear removes it.
C14_EntryPermanence ==
  last.op = "save" =>
    \A k \in 1..Len(PrevList) :
      k < MAX_ITEMS =>
        \E j \in {k, k + 1} : j <= Len(List) /\ List[j] = PrevList[k]

\* C16: viewHistory on a store whose text JSON.parse rejects, or whose read
\* throws, gives status history with an empty list: getHistory() returned the
\* empty sequence and nothing was raised; the store is left as it was.
C16_CorruptStoreRead ==
  (last.op = "viewHistory" /\ (last.prevSlot.tag = "malformed" \/ ReadFails(last.fault))) =>
     /\ historyItems = <<>>
     /\ state.status = "history"
     /\ slot = last.prevSlot

\* C16 witness: the history opened on the unparsable slot, with storage
\* working, and shown empty.
C16_Witness ==
  last.op = "viewHistory" /\ last.prevSlot.tag = "malformed" /\ last.fault = "none"
    /\ historyItems = <<>> /\ state.status = "history"

\* A further clearHistory() call, working or failing, leaves the store as it is.
ClearedForGood == \A f \in {"none", "denied"} : clearHistory(slot, f) = slot

\* C17 (as claimed): after every clearHistory() call getHistory() returns the
\* empty sequence, and a second call leaves the store as the first left it.
C17_ClearIdempotent ==
  last.op = "clear" => (List = <<>> /\ ClearedForGood)

\* C17 (amended): a clearHistory() call whose removeItem works leaves the slot
\* absent, so getHistory() returns the empty sequence and a second call
\* leaves the same store; a call whose removeItem throws leaves the store as
\* it was.
C17_ClearWhenItWorks ==
  last.op = "clear" =>
    IF last.fault = "none"
      THEN slot = AbsentText /\ List = <<>> /\ ClearedForGood
      ELSE slot = last.prevSlot

\* C17 witness: a working clear of a store that held entries.
C17_Witness ==
  last.op = "clear" /\ last.fault = "none" /\ Len(PrevList) > 1 /\ List = <<>>

\* C15 (as claimed): when the write inside saveToHistory fails, the step that handles the
\* successful analysis makes its one state update, to status result with the
\* new analysis (no error update), and the store keeps its contents.
C15_SwallowedWriteFailure ==
  (Settled /\ last.outcome.returned /\ WriteFails(last.fault)) =>
     /\ state.status = "result"
     /\ state.analysis = last.outcome.value
     /\ last.updates = 1
     /\ slot = last.prevSlot

\* C22 (as claimed): from status error and from status result alike, one user
\* action can lead to idle and another to camera.
C22_ExitsToIdleAndCamera ==
  state.status \in {"error", "result"} => (CanLead("idle") /\ CanLead("camera"))

\* C22 (amended): from error one user action leads to idle and another to
\* camera; from a rendered result the one exit leads to camera when it is a
\* fresh result and to history when it was opened from the history; no
\* single user action leads from result to idle.
C22_Exits ==
  /\ state.status = "error" => (CanLead("idle") /\ CanLead("camera"))
  /\ state.status = "result" =>
        /\ ~CanLead("idle")
        /\ (ResultRendered(state) /\ ~state.isHistoryView) =>
              (CanLead("camera") /\ ~CanLead("history"))
        /\ (ResultRendered(state) /\ state.isHistoryView) =>
              (CanLead("history") /\ ~CanLead("camera"))

\* C22 witness: the reset of a fresh result was pressed and led to camera.
C22_Witness ==
  last.op = "reset" /\ last.prevStatus = "result" /\ state.status = "camera"

\* C23: every other status is reachable from the initial idle state by the
\* defined transitions: idle has a step to camera and one to history, camera
\* has one to analyzing, analyzing has one to result and one to error.
C23_Reachability ==
  /\ state.status = "idle" => (StepLeads("camera") /\ StepLeads("history"))
  /\ (state.status = "camera" /\ started < MaxCaptures) => StepLeads("analyzing")
  /\ state.status = "analyzing" => (StepLeads("result") /\ StepLeads("error"))

\* C23 witness: the history is shown with a saved entry after an analysis
\* that failed: camera, analyzing, result and error were all passed through.
C23_Witness ==
  /\ state.status = "history" /\ Len(historyItems) > 0
  /\ state.error # null /\ state.imageSrc # null

\* C24: the reset of the result view and the retry of the error view leave
\* status camera, no image, no analysis, no error and isHistoryView false.
C24_Reset ==
  last.op = "reset" =>
     /\ last.prevStatus \in {"result", "error"}
     /\ state.status = "camera"
     /\ state.imageSrc = null
     /\ state.analysis = NullValue
     /\ state.error = null
     /\ state.isHistoryView = FALSE

\* C24 witness: the retry pressed in the error view, which showed a message
\* for a captured image.
C24_Witness ==
  last.op = "reset" /\ last.prevStatus = "error" /\ state.status = "camera"
    /\ state.imageSrc = null /\ state.error = null

\* C25 (as claimed): after a captured image IMG was delivered (the shutter
\* with a frame, a FileReader that has loaded) the status is analyzing with
\* imageSrc IMG, an analysis request for IMG is outstanding and the store is
\* as it was.
C25_CaptureTransition ==
  last.op = "capture" =>
     /\ state.status = "analyzing"
     /\ state.imageSrc = last.image
     /\ pending[last.image] >= 1
     /\ slot = last.prevSlot

\* C29 (as claimed): the entries of the store have pairwise distinct ids, also
\* entries of two saves at the same clock reading.
C29_UniqueIds ==
  \A i, j \in 1..Len(List) : i # j => List[i].id # List[j].id

\* C30 (as claimed): every step into status analyzing starts in status
\* camera, also the step of a FileReader that loads after the camera screen
\* was left.
C30_AnalyzingOnlyFromCamera ==
  last.op = "capture" => last.prevStatus = "camera"

\* C31 (as claimed): whenever a result is shown with an image and a
\* well-formed analysis, the analysis is the one that belongs to the image,
\* for every interleaving of captures, responses and navigation.
C31_ImageAnalysisPaired ==
  (state.status = "result" /\ ResultRendered(state) /\ IsFoodAnalysis(state.analysis)) =>
     state.analysis = AnalysisOf(state.imageSrc)

\* C32 (as claimed): in every state the screen offers some user action, or an
\* analysis response or a file read is still under way.
C32_NoDeadEnd ==
  ENABLED UserStep \/ Outstanding > 0 \/ readers["IMG1"] + readers["IMG2"] > 0

\* C35 (as claimed): whenever the history is shown, the list shown equals
\* what getHistory() returns from the store.
C35_DisplayedMatchesStore ==
  state.status = "history" => historyItems = List

\* C37 (as claimed): the error field is set only while the status is error.
C37_ErrorOnlyInErrorStatus ==
  state.error # null => state.status = "error"

\* C33: status analyzing offers no user action, and when every analysis
\* request settles in the end, every state with status analyzing is followed
\* by one with status result or error.
C33_AnalyzingEnds ==
  /\ [](state.status = "analyzing" => ~ENABLED UserStep)
  /\ (state.status = "analyzing") ~> (state.status \in {"result", "error"})

\* C33 witness: a request settled while the spinner was shown and ended it.
C33_Witness ==
  Settled /\ last.prevStatus = "analyzing" /\ state.status \in {"result", "error"}
    /\ Outstanding = 0

\* C34 (as claimed): every analysis that returns adds one entry to the
\* history, the one built from its own image and analysis, up to the cap.
C34_SuccessAddsEntry ==
  (Settled /\ last.outcome.returned) =>
     /\ NewestHolds(last.outcome.value, last.image)
     /\ Len(List) = IF Len(PrevList) < MAX_ITEMS THEN Len(PrevList) + 1 ELSE MAX_ITEMS

\* C34 (amended): every analysis that returns calls saveToHistory once, before
\* its one state update, with its own image and analysis, also when the
\* state no longer waits for it; the entry is added in front of the entries
\* the save could read (up to the cap) when the storage write works, and the
\* store is as it was before when the write fails.
C34_SuccessSavedOnce ==
  (Settled /\ last.outcome.returned) =>
     /\ SettledSteps(last.outcome) = <<"save", "setResult">>
     /\ last.updates = 1
     /\ last.item.analysis = last.outcome.value
     /\ last.item.imageSrc = last.image
     /\ IF ~WriteFails(last.fault)
          THEN List = Updated(last.item, getHistory(last.prevSlot, last.fault))
          ELSE slot = last.prevSlot

\* C34 witness: a response that arrived after the user had left the analyzing
\* screen was saved in front of an entry saved before.
C34_Witness ==
  /\ Settled /\ last.outcome.returned /\ last.fault = "none"
  /\ last.prevStatus # "analyzing"
  /\ Len(List) = Len(PrevList) + 1 /\ Len(PrevList) > 0
  /\ List[1] = last.item /\ last.item.imageSrc = last.image

\* C36 (as claimed): after a save over a slot that cannot be parsed,
\* getHistory() returns exactly the one new entry.
C36_CorruptStoreOverwritten ==
  (Settled /\ last.outcome.returned /\ last.prevSlot.tag = "malformed") =>
     List = <<last.item>>

\* C36 (amended): a save over a slot that cannot be parsed takes the history
\* as empty; when its write works the slot is overwritten and getHistory()
\* returns exactly the one new entry, and when its write fails the slot stays
\* unparsable and getHistory() returns the empty sequence.
C36_CorruptStoreSave ==
  (Settled /\ last.outcome.returned /\ last.prevSlot.tag = "malformed") =>
     IF ~WriteFails(last.fault)
       THEN slot = JSONstringify(<<last.item>>) /\ List = <<last.item>>
       ELSE slot = last.prevSlot /\ List = <<>>

\* C36 witness: a working save replaced the unparsable slot by the new entry.
C36_Witness ==
  /\ Settled /\ last.outcome.returned /\ last.fault = "none"
  /\ last.prevSlot.tag = "malformed" /\ PrevList = <<>>
  /\ List = <<last.item>> /\ last.item.imageSrc = last.image

\* C39: a press of the shutter while the video has no frame emits no image,
\* starts no analysis and leaves the application state, the store and the
\* displayed history as they were.
C39_ShutterBeforeReady ==
  [][(Shutter /\ last'.op = "shutterNoFrame") =>
        UNCHANGED <<state, pending, readers, started, slot, historyItems>>]_vars

\* C39 witness: the shutter was pressed without a frame, the camera screen is
\* still shown and no request is outstanding.
C39_Witness ==
  /\ last.op = "shutterNoFrame" /\ last.updates = 0
  /\ state.status = "camera" /\ state.imageSrc = null
  /\ Outstanding = 0

\* C40: the clear control is disabled while the displayed list is empty; only
\* a confirmed clear removes the slot; a declined clear leaves the store, the
\* displayed list and the application state as they were, and a confirmed
\* one leaves status history with an empty list.
C40_GuardedClear ==
  /\ []((state.status = "history" /\ historyItems = <<>>) => ~ENABLED ClearHistory)
  /\ [][((slot # AbsentText /\ slot' = AbsentText) =>
            (ClearHistory /\ last'.op = "clear"))
         /\ ((ClearHistory /\ last'.op = "clearDeclined") =>
               UNCHANGED <<state, slot, historyItems>>)
         /\ ((ClearHistory /\ last'.op = "clear") =>
               (state' = state /\ state'.status = "history" /\ historyItems' = <<>>))]_vars

\* C40 witness: the dialog was declined over a list of two entries.
C40_Witness ==
  /\ last.op = "clearDeclined" /\ last.updates = 0
  /\ state.status = "history"
  /\ Len(historyItems) = 2 /\ historyItems = List

\* C11 (as claimed): every FoodAnalysis analyzeFoodImage returns has giLevel
\* consistent with giIndex and purineLevel consistent with purineContent,
\* whatever combination the remote service sends.
C11_BucketsConsistent ==
  (last.op = "analyze" /\ last.outcome.returned /\ IsFoodAnalysis(last.outcome.value)) =>
     (GiConsistent(last.outcome.value) /\ PurineConsistent(last.outcome.value))

-----------------------------------------------------------------------------
(* CameraCapture on its own: rendered and torn down by the application,      *)
(* toggled by the user, its getUserMedia requests settled by the browser.    *)

InitCamera ==
  /\ state = InitialState
  /\ historyItems = <<>>
  /\ slot = AbsentText
  /\ now = 0
  /\ readers = EmptyBag
  /\ pending = EmptyBag
  /\ started = 0
  /\ last = [op |-> "init", image |-> null, remote |-> NoRemote, outcome |-> NoOutcome,
             fault |-> "none", prevStatus |-> "idle", prevSlot |-> AbsentText,
             updates |-> 0, item |-> NoItem]
  /\ camera \in {CameraOff(supported) : supported \in BOOLEAN}
  /\ audio = AudioOff

\* handleStartCamera: the application renders CameraCapture (status camera):
\* first render, effect.
CameraMount ==
  /\ state.status = "idle"
  /\ ~camera.mounted
  /\ Len(camera.sessions) < MaxSessions
  /\ state' = StartCameraState(state)
  /\ camera' = EffectStarted([camera EXCEPT !.mounted = TRUE, !.facingMode = "environment",
                                            !.error = "", !.streamRef = {}, !.video = {}])
  /\ UNCHANGED <<historyItems, slot, now, readers, pending, started, last, audio>>

\* toggleCamera (and the retry button of the error view): facingMode changes,
\* so the effect is cleaned up and run again.
CameraToggle ==
  /\ camera.mounted
  /\ Len(camera.sessions) < MaxSessions
  /\ camera' = EffectStarted([CleanedUp(camera) EXCEPT
                                !.facingMode = IF @ = "user" THEN "environment" ELSE "user"])
  /\ UNCHANGED <<state, historyItems, slot, now, readers, pending, started, last, audio>>

\* A getUserMedia request resolves and startCamera runs on.
AcquisitionResolves ==
  /\ \E i \in 1..Len(camera.sessions) :
       /\ Pending(camera.sessions[i])
       /\ camera' = Acquired(camera, i)
  /\ UNCHANGED <<state, historyItems, slot, now, readers, pending, started, last, audio>>

\* A rejection that also puts the application into its error status.
AcquisitionRejectsFatal ==
  /\ \E i \in 1..Len(camera.sessions), err \in CameraErrors :
       /\ Pending(camera.sessions[i])
       /\ camera' = Rejected(camera, i, err)
       /\ state' = IF camera'.error # "" THEN ErrorState(state, err) ELSE state
  /\ UNCHANGED <<historyItems, slot, now, readers, pending, started, last, audio>>

\* A getUserMedia request rejects and startCamera runs on.
AcquisitionRejects ==
  /\ \E i \in 1..Len(camera.sessions), err \in CameraErrors :
       /\ Pending(camera.sessions[i])
       /\ camera' = Rejected(camera, i, err)
  /\ UNCHANGED <<state, historyItems, slot, now, readers, pending, started, last, audio>>

\* The application stops rendering CameraCapture: the back button was pressed
\* (status idle), or the shutter was pressed while the video element had a
\* frame, of a running stream or of one stopped since, and the frame was
\* delivered (handleCapture up to its await).
CameraUnmount ==
  /\ camera.mounted
  /\ camera' = TakenDown(camera)
  /\ \E exit \in {"back", "capture"} :
       IF exit = "back"
         THEN /\ state' = StatusState(state, "idle")
              /\ UNCHANGED <<pending, started>>
         ELSE /\ FrameAvailable(camera)
              /\ started < MaxCaptures
              /\ state' = CapturedState(state, StoreImage)
              /\ pending' = Add(pending, StoreImage)
              /\ started' = started + 1
  /\ UNCHANGED <<historyItems, slot, now, readers, last, audio>>

\* A file is chosen in CameraCapture, in whichever of its views.
CameraFileUpload == UploadAvailable(camera) /\ FileUpload

\* A FileReader finishes (reader.onload): onCapture(result), that is
\* App.handleCapture up to its await; the status analyzing takes
\* CameraCapture down when it is still rendered.
CameraReaderLoads ==
  /\ \E file \in Images :
       /\ readers[file] > 0
       /\ readers' = Remove(readers, file)
       /\ state' = SetState(state, CapturedState(state, file))
       /\ pending' = Add(pending, file)
       /\ last' = Did("capture", file, NoRemote, NoOutcome, "none", 1, NoItem)
  /\ camera' = IF camera.mounted THEN TakenDown(camera) ELSE camera
  /\ UNCHANGED <<historyItems, slot, now, started, audio>>

NextCamera ==
  \/ CameraMount
  \/ CameraToggle
  \/ AcquisitionResolves
  \/ AcquisitionRejects
  \/ CameraUnmount
  \/ CameraFileUpload
  \/ CameraReaderLoads

SpecCamera == InitCamera /\ [][NextCamera]_vars

Sessions == 1..Len(camera.sessions)

\* C18: once CameraCapture is torn down, no stream it acquired has running
\* tracks: not the one that was active, and none of a request (preferred or
\* unconstrained) that resolves after the teardown.
C18_StreamReleased == ~camera.mounted => camera.running = {}

\* C18 witness: the component torn down after one stream had been active and
\* stopped, and an unconstrained request of a later run resolved after the
\* teardown.
C18_Witness ==
  /\ ~camera.mounted
  /\ \E i, j \in Sessions :
       /\ camera.sessions[i].phase = "stopped"
       /\ camera.sessions[j].phase = "released" /\ camera.sessions[j].prefFailed

\* C19: at most one acquired stream is running at any time, and while the
\* request of the current effect run is pending none is: the stream of the
\* run before was stopped before the request started.
C19_ToggleOrdering ==
  /\ Cardinality(camera.running) <= 1
  /\ camera.running \subseteq camera.streamRef
  /\ \A i \in Sessions :
       (camera.sessions[i].mounted /\ Pending(camera.sessions[i])) => camera.running = {}

\* C19 witness: a toggle arrived while a request was pending; the request of
\* the new run resolved and its stream is the one running, the request of the
\* old run resolved too and its stream was stopped.
C19_Witness ==
  \E i, j \in Sessions :
    /\ i < j
    /\ camera.sessions[i].phase = "released"
    /\ camera.sessions[j].phase = "active"
    /\ camera.running = {j}

\* C20: an effect run makes the unconstrained request exactly when its
\* preferred request failed, and no request after that; it surfaces an error
\* after a request only when the unconstrained request failed as well.
C20_AcquisitionRetry ==
  \A i \in Sessions :
    LET s == camera.sessions[i]
    IN  /\ s.attempts <= 2
        /\ s.prefFailed <=> (s.attempts = 2)
        /\ (s.surfaced /\ s.attempts > 0) => (s.phase = "failed" /\ s.prefFailed)
        /\ (s.phase = "failed" /\ s.attempts > 0) => s.prefFailed

\* C20 witness: a run whose two requests both failed, with the error shown.
C20_Witness ==
  /\ camera.error = "permission denied"
  /\ \E i \in Sessions :
       LET s == camera.sessions[i]
       IN  s.prefFailed /\ s.attempts = 2 /\ s.phase = "failed" /\ s.surfaced

\* FileReaders still reading.
Reading == readers["IMG1"] + readers["IMG2"]

\* C28 (as claimed): the system attempts no operation a second time without a
\* user action in between: an effect run, started by one user action, makes
\* one camera request.
C28_NoAutomaticRetry ==
  \A i \in Sessions : camera.sessions[i].attempts <= 1

\* C28 (amended): the one operation attempted again without a user action is
\* the camera request of an effect run, made once more, unconstrained, when
\* the preferred request failed; the analysis requests and file reads under
\* way are no more than the captures the user began.
C28_OnlyCameraFallback ==
  /\ \A i \in Sessions :
       /\ camera.sessions[i].attempts <= 2
       /\ camera.sessions[i].attempts = 2 => camera.sessions[i].prefFailed
       /\ camera.sessions[i].phase = "failed" =>
             camera.sessions[i].attempts \in {0, 2}
  /\ Outstanding + Reading <= started

\* C28 witness: the stream of the rendered camera comes from the second,
\* unconstrained request, and a capture begun by the user is under way.
C28_Witness ==
  /\ camera.mounted /\ Len(camera.sessions) > 0
  /\ camera.sessions[Len(camera.sessions)].phase = "active"
  /\ camera.sessions[Len(camera.sessions)].attempts = 2
  /\ Reading = 1 /\ started = 1

\* C21: while CameraCapture shows a camera error (permission denied, no
\* device, unsupported browser, any other), the application state is the one
\* handleStartCamera left (status camera, no error) and a file can be chosen.
C21_CameraErrorsLocal ==
  (camera.mounted /\ camera.error # "") =>
     /\ state = StartCameraState(InitialState)
     /\ UploadAvailable(camera)

\* C21 witness: a file chosen in the error view of a browser without
\* getUserMedia, the application still in status camera.
C21_Witness ==
  /\ ~camera.supported /\ camera.mounted /\ camera.error = "browser not supported"
  /\ last.op = "fileChosen" /\ readers[last.image] > 0
  /\ state.status = "camera"

-----------------------------------------------------------------------------
(* NutrientDisplay's speech playback on its own: the view rendered and       *)
(* removed by the application, the play button pressed by the user, the      *)
(* speech requests settled by the remote service, the sources ending.        *)

AudioRest == <<state, historyItems, slot, now, readers, pending, started, last, camera>>

\* The application renders NutrientDisplay (status result).
ViewMount ==
  /\ CurrentView(audio) = 0
  /\ Len(audio.views) < MaxViews
  /\ audio' = [audio EXCEPT !.views = Append(@, NewView)]
  /\ UNCHANGED AudioRest

\* The application stops rendering NutrientDisplay (reset, back).
ViewUnmount ==
  /\ CurrentView(audio) # 0
  /\ audio' = Unmounted(audio, CurrentView(audio))
  /\ UNCHANGED AudioRest

\* The play button (disabled while a request is awaited): handlePlayAudio.
PlayPressed ==
  LET v == CurrentView(audio)
  IN  /\ v # 0
      /\ ~audio.views[v].isAudioLoading
      /\ IF audio.views[v].isPlaying
            THEN audio' = PlaybackStopped(audio, v)
            ELSE /\ Len(audio.requests) < MaxSpeech
                 /\ audio' = SpeechRequested(audio, v)
      /\ UNCHANGED AudioRest

\* generateFoodSpeech returns: undefined when the answer holds no data,
\* 16-bit PCM in base64, or data that the decoding rejects with an error.
SpeechResolves ==
  /\ \E r \in 1..Len(audio.requests), answer \in SpeechAnswers :
       /\ audio.requests[r].phase = "pending"
       /\ audio' = IF answer.data = "none"
                    THEN SpeechFailed(audio, r, NoAudioError)
                  ELSE IF answer.data = "pcm" THEN SpeechPlayed(audio, r)
                  ELSE SpeechUndecodable(audio, r, answer.error)
  /\ UNCHANGED AudioRest

\* generateFoodSpeech throws (the request failed).
SpeechRejects ==
  /\ \E r \in 1..Len(audio.requests), err \in SpeechErrors :
       /\ audio.requests[r].phase = "pending"
       /\ audio' = SpeechFailed(audio, r, err)
  /\ UNCHANGED AudioRest

\* A playing source reaches the end of its buffer.
PlaybackEnds ==
  /\ \E r \in audio.active : audio' = PlaybackEnded(audio, r)
  /\ UNCHANGED AudioRest

\* The ended event of a source that was stopped (the stop button, the
\* unmount) is delivered.
StoppedSourceEnds ==
  /\ \E r \in audio.stopped : audio' = PlaybackEnded(audio, r)
  /\ UNCHANGED AudioRest

NextAudio ==
  \/ ViewMount
  \/ ViewUnmount
  \/ PlayPressed
  \/ SpeechResolves
  \/ SpeechRejects
  \/ PlaybackEnds
  \/ StoppedSourceEnds

SpecAudio == Init /\ [][NextAudio]_vars

\* C26 (as claimed): at most one playback source is active at any time, and
\* every active source belongs to the view that is rendered: none started by
\* a view is active after its unmount, also when the speech answer arrives
\* only then.
C26_AudioScoped ==
  /\ Cardinality(audio.active) <= 1
  /\ \A r \in audio.active : audio.views[audio.requests[r].view].mounted

\* A speech request that was pending comes back failed in this step.
SpeechFailureStep ==
  \E r \in 1..Len(audio.requests) :
    audio.requests[r].phase = "pending" /\ audio'.requests[r].phase = "failed"

\* C27: a step in which a speech request fails or comes back without audio
\* data starts no playback, notifies the user, and leaves the application
\* state and the store as they were.
C27_SpeechFailureLocal ==
  [][SpeechFailureStep =>
       /\ audio'.active = audio.active
       /\ \A r \in 1..Len(audio.requests) :
            audio'.requests[r].phase = "failed" =>
              (audio'.requests[r].alerted /\ ~audio'.requests[r].started)
       /\ UNCHANGED <<state, historyItems, slot>>]_vars

\* C27 witness: requests of the rendered view have failed, one because the
\* request was rejected, one because the answer held no audio data and one
\* because its data could not be decoded: the user was notified each time,
\* the button is enabled again and nothing plays.
C27_Witness ==
  /\ CurrentView(audio) # 0
  /\ ~audio.views[CurrentView(audio)].isAudioLoading
  /\ ~audio.views[CurrentView(audio)].isPlaying
  /\ audio.active = {}
  /\ \A e \in {"fetch failed", NoAudioError.message, "not correctly encoded"} :
       \E r \in 1..Len(audio.requests) :
         /\ audio.requests[r].view = CurrentView(audio)
         /\ audio.requests[r].phase = "failed" /\ audio.requests[r].alerted
         /\ audio.requests[r].error = e

\* The speech requests of a view that are still awaited.
Awaited(v) ==
  {r \in 1..Len(audio.requests) :
     audio.requests[r].view = v /\ audio.requests[r].phase = "pending"}

\* C38: a result view has at most one speech request outstanding, and its
\* loading flag is set exactly while one is: it is false again once the
\* request has played, come back without audio data or failed.
C38_SpeechDiscipline ==
  \A v \in 1..Len(audio.views) :
    /\ Cardinality(Awaited(v)) <= 1
    /\ audio.views[v].isAudioLoading <=> Awaited(v) # {}

\* C38 witness: in one view a request played, a request came back without
\* audio data and one failed in decoding, one after the other; the ended
\* event of the source was delivered and the loading flag is false again.
C38_Witness ==
  \E v \in 1..Len(audio.views) :
    /\ \E r1, r2, r3 \in 1..Len(audio.requests) :
         /\ audio.requests[r1].view = v /\ audio.requests[r1].phase = "played"
         /\ r1 \notin audio.active \cup audio.stopped
         /\ audio.requests[r2].view = v /\ audio.requests[r2].phase = "failed"
         /\ audio.requests[r2].error = NoAudioError.message
         /\ audio.requests[r3].view = v /\ audio.requests[r3].phase = "failed"
         /\ audio.requests[r3].error = "byte length should be a multiple of 2"
    /\ Awaited(v) = {}
    /\ ~audio.views[v].isAudioLoading

====
